---- MODULE Spec2Model ----
(***************************************************************************)
(* A model of the digicomm library (src/src/digicomm/__init__.py).         *)
(*                                                                         *)
(* The library is a set of stateless routines.  The model is a caller that *)
(* is either idle or has just called one routine: `op' names the routine,  *)
(* `inp' holds the arguments of the call and `out' what the call produced  *)
(* (a returned value, or the exception it raised).  One action per         *)
(* routine; Return takes the caller back to idle.                          *)
(*                                                                         *)
(* Numbers.  Samples are integers.  Filter taps are irrational (Blackman   *)
(* window values, sinc values), so a filtered sample is kept exactly, as   *)
(* the vector of integer coefficients it has over the taps' irrational     *)
(* factors: sample = SUM_i coef[i] * factor_i.  Python's 0-based indices   *)
(* and slices are kept (PyGet, PySlice); TLA+ sequences are 1-based.       *)
(***************************************************************************)
EXTENDS Integers, Sequences, FiniteSets, TLC

VARIABLES op, inp, out

vars == <<op, inp, out>>

(***************************************************************************)
(* Bounds of the model.                                                    *)
(***************************************************************************)
MaxSigLen == 4        \* longest signal handed to a filter / zeroInsert
MaxEdgeLen == 8       \* derivativeFilter2: longest signal (beyond 2*pad at N = 7)
MaxFilterLen == 8     \* largest filter length N
MaxL == 3             \* largest zero-insertion factor
MaxBitLen == 6        \* longest bit sequence
MaxLog2M == 3         \* bitsToSymbols: M up to 2^MaxLog2M
MaxBlock == 2         \* estimator: longest block, Lfft = 2*MaxBlock
MaxPow == 4           \* estimator: largest power in a spectrum bin
MaxM == 130           \* makeDecisions: largest constellation
MaxIqLen == 2         \* makeDecisions / addNoise: longest sample sequence

SampleVals == {-1, 0, 1}
Signals(lo, hi) == UNION {[1..n -> SampleVals] : n \in lo..hi}

\* the longer signals handed to derivativeFilter2, over two sample values
EdgeSignals(lo, hi) == UNION {[1..n -> {0, 1}] : n \in lo..hi}

Min(a, b) == IF a < b THEN a ELSE b
Max(a, b) == IF a > b THEN a ELSE b

RECURSIVE Pow2(_)
Pow2(k) == IF k = 0 THEN 1 ELSE 2 * Pow2(k - 1)

RECURSIVE Factorial(_)
Factorial(k) == IF k <= 1 THEN 1 ELSE k * Factorial(k - 1)

(***************************************************************************)
(* Python indexing.                                                        *)
(***************************************************************************)
\* a slice bound, normalised against a length n: negative counts from the end
PyNorm(i, n) == IF i < 0 THEN Max(i + n, 0) ELSE Min(i, n)

\* s[start:stop]
PySlice(s, start, stop) ==
    LET lo == PyNorm(start, Len(s))
        hi == PyNorm(stop, Len(s))
    IN  IF hi <= lo THEN << >> ELSE SubSeq(s, lo + 1, hi)

\* s[start:stop] = v, v a scalar broadcast over the slice
PySliceFill(s, start, stop, v) ==
    LET lo == PyNorm(start, Len(s))
        hi == PyNorm(stop, Len(s))
    IN  [k \in 1..Len(s) |-> IF lo < k /\ k <= hi THEN v ELSE s[k]]

\* s[i] is defined (no IndexError)
PyInRange(s, i) == -Len(s) <= i /\ i < Len(s)

\* s[i]
PyGet(s, i) == s[(IF i < 0 THEN i + Len(s) ELSE i) + 1]

\* s[i] = v
PySet(s, i, v) ==
    [s EXCEPT ![(IF i < 0 THEN i + Len(s) ELSE i) + 1] = v]

Raise(e) == [status |-> "raise", err |-> e]

(***************************************************************************)
(* np.convolve(a, v), mode 'full', on integer sequences.                   *)
(***************************************************************************)
RECURSIVE ConvSum(_, _, _, _)
ConvSum(a, v, k, j) ==
    IF j > Len(a) THEN 0
    ELSE (IF 1 <= k - j + 1 /\ k - j + 1 <= Len(v) THEN a[j] * v[k - j + 1] ELSE 0)
         + ConvSum(a, v, k, j + 1)

Convolve(a, v) == [k \in 1..(Len(a) + Len(v) - 1) |-> ConvSum(a, v, k, 1)]

(***************************************************************************)
(* zeroInsert(x, L) and upsample(x, p, L).                                 *)
(***************************************************************************)
\* z = np.zeros((len(x),L)); z[:,0] = x; z.flatten(): row-major
ZeroMatrixFlat(x, L) ==
    [k \in 1..(Len(x) * L) |-> IF (k - 1) % L = 0 THEN x[((k - 1) \div L) + 1] ELSE 0]

zeroInsert(x, L) == PySlice(ZeroMatrixFlat(x, L), 0, -(L - 1))

upsample(x, p, L) ==
    LET train == zeroInsert(x, L)
    IN  IF Len(train) = 0 \/ Len(p) = 0
        THEN Raise("ValueError")
        ELSE [status |-> "ok", val |-> Convolve(train, p)]

(***************************************************************************)
(* Filter taps and filtered samples.                                       *)
(*                                                                         *)
(* A tap list is the sequence of the taps' integer numerators: tap i is    *)
(* num[i] * factor_i, factor_i irrational (derivative filter:              *)
(* blackman(N)[i] / (pad! * Tsamp); fractional delay: the sinc value       *)
(* itself, numerator 1).  A filtered sample is the vector of its integer   *)
(* coefficients over factor_1..factor_N; the zero sample is the zero       *)
(* vector.                                                                 *)
(***************************************************************************)
ZeroSample(N) == [i \in 1..N |-> 0]

\* np.convolve(x, d), mode 'full': out[k] = SUM_i x[k-i] * d[i]
ConvolveTaps(x, d) ==
    [k \in 1..(Len(x) + Len(d) - 1) |->
        [i \in 1..Len(d) |->
            IF 1 <= k - i + 1 /\ k - i + 1 <= Len(x) THEN x[k - i + 1] * d[i] ELSE 0]]

\* createDerivativeFilter: its guard, and its taps for nd = -(N-1)/2..(N-1)/2:
\* 0 at nd = 0, else (-1)^nd / nd (times pad!, to stay in the integers)
DerivativeFilterLenOk(N) == (N + 1) % 4 = 0

createDerivativeFilter(N) ==
    LET half == (N - 1) \div 2
    IN  [i \in 1..N |->
            LET nd == i - 1 - half
                a  == IF nd < 0 THEN -nd ELSE nd
            IN  IF nd = 0 THEN 0
                ELSE (IF a % 2 = 0 THEN 1 ELSE -1)
                     * (IF nd < 0 THEN -1 ELSE 1) * (Factorial(half) \div a)]

\* fractionalDelayCoeffs(T, dT, L): 2L+1 sinc values, n = -L..L
fractionalDelayCoeffs(L) == [i \in 1..(2 * L + 1) |-> 1]

\* int((N-1)/2)
PadOf(N) == (N - 1) \div 2

\* x2: x with pad samples of linear extrapolation on either end
Extrapolate(x, pad) ==
    LET n == Len(x)
    IN  [k \in 1..(n + 2 * pad) |->
            IF k <= pad
            THEN PyGet(x, 0) - (pad - (k - 1)) * (PyGet(x, 1) - PyGet(x, 0))
            ELSE IF k <= pad + n
            THEN x[k - pad]
            ELSE PyGet(x, -1) + (k - pad - n) * (PyGet(x, -1) - PyGet(x, -2))]

\* a zero_edge branch without its last statement, xd[-1] = 0
ZeroEdge_LastKept(xd, pad, N) ==
    LET a == PySliceFill(xd, 0, pad, ZeroSample(N))
    IN  PySliceFill(a, -pad, -1, ZeroSample(N))

\* a zero_edge branch without its second statement, xd[-pad:-1] = 0
ZeroEdge_TailKept(xd, pad, N) ==
    LET a == PySliceFill(xd, 0, pad, ZeroSample(N))
    IN  PySet(a, -1, ZeroSample(N))

\* the zero_edge branch of derivativeFilter2
ZeroEdge(xd, pad, N) ==
    LET a == PySliceFill(xd, 0, pad, ZeroSample(N))
        b == PySliceFill(a, -pad, -1, ZeroSample(N))
    IN  PySet(b, -1, ZeroSample(N))

derivativeFilter2(x, N, zero_edge) ==
    IF ~DerivativeFilterLenOk(N)
    THEN Raise("createDerivativeFilter: N must be of form 4*n-1")
    ELSE IF Len(x) = 0
    THEN Raise("ValueError")
    ELSE LET d   == createDerivativeFilter(N)
             pad == PadOf(N)
             xd  == PySlice(ConvolveTaps(x, d), pad, -pad)
         IN  [status |-> "ok",
              val |-> IF zero_edge THEN ZeroEdge(xd, pad, N) ELSE xd,
              x_after |-> x]

\* the shared body of derivativeFilter and fractionalDelayFilter
ExtrapolateAndTrim(x, d, pad) ==
    IF Len(x) < 2
    THEN Raise("IndexError")
    ELSE [status |-> "ok",
          val |-> PySlice(ConvolveTaps(Extrapolate(x, pad), d), 2 * pad, -2 * pad),
          x_after |-> x]

derivativeFilter(x, N) ==
    IF ~DerivativeFilterLenOk(N)
    THEN Raise("createDerivativeFilter: N must be of form 4*n-1")
    ELSE ExtrapolateAndTrim(x, createDerivativeFilter(N), PadOf(N))

fractionalDelayFilter(x, N) ==
    ExtrapolateAndTrim(x, fractionalDelayCoeffs(N \div 2), PadOf(N))

(***************************************************************************)
(* freqOffsetEstimationQpsk (order 4) and freqOffsetEstimation16Apsk       *)
(* (order 12).  The two bodies differ only in the order.  The block enters *)
(* the model as its power spectrum PP2 (Lfft = 2*len(rx) bins, integer     *)
(* powers): the nonlinear transform and the FFT are floating-point complex *)
(* arithmetic, everything after them is modelled as written.  A tone at   *)
(* bin k puts the peak in bin k, for any k when the block has two samples  *)
(* or more: rx = [1, exp(-j*pi/(2*order))] has the spectrum <<2,0,2,4>>.   *)
(***************************************************************************)
Modes == {"coarse", "gauss", "interp_1", "interp_2"}

RECURSIVE AlternatingSum(_, _)
\* PP2[k] - PP2[k+1] + PP2[k+2] - ... from the 0-based bin k on
AlternatingSum(s, k) ==
    IF k >= Len(s) THEN 0 ELSE PyGet(s, k) - AlternatingSum(s, k + 1)

\* The spectra of blocks of n samples.  ZZ is the 2n-point transform of n
\* samples padded with n zeros, so the autocorrelation of z at lag n is 0:
\* the even bins of PP2 sum to what the odd bins sum to (for n = 1, a flat
\* spectrum).
Spectra(n) == {s \in [1..(2 * n) -> 0..MaxPow] : AlternatingSum(s, 0) = 0}

\* np.argmax(PP2): the 0-based index of the first maximum
ArgMax(s) ==
    CHOOSE i \in 0..(Len(s) - 1) :
        /\ \A j \in 0..(Len(s) - 1) : PyGet(s, j) <= PyGet(s, i)
        /\ \A j \in 0..(i - 1) : PyGet(s, j) < PyGet(s, i)

\* a wraparound test that leaves bin Lfft/2 among the positive frequencies
IsNegativeBin_Strict(idx_max, Lfft) == 2 * idx_max > Lfft

\* bins >= Lfft/2 are negative frequencies
IsNegativeBin(idx_max, Lfft) == 2 * idx_max >= Lfft

\* vhat2, as the fraction num / den
CoarseEstimate(idx_max, Lfft, order) ==
    [num |-> IF IsNegativeBin(idx_max, Lfft) THEN idx_max - Lfft ELSE idx_max,
     den |-> Lfft * order]

Sign(v) == IF v > 0 THEN 1 ELSE IF v < 0 THEN -1 ELSE 0

\* the value returned per mode: vhat2 plus a fine correction.  interp_1 is
\* the fraction num/den; interp_2 is num/(den*pi); gauss is built from the
\* logarithms of the three powers, kept as its arguments.  A zero den is the
\* unsignalled inf/NaN of the floating-point division.
FineCorrection(mode, II1, II2, II3, Lfft, order) ==
    CASE mode = "interp_1" ->
            [kind |-> "interp_1", num |-> II1 - II3,
             den |-> 2 * order * Lfft * (II1 - 2 * II2 + II3)]
      [] mode = "interp_2" ->
            [kind |-> "interp_2", num |-> Sign(II3 - II1) * Max(II1, II3),
             den |-> Lfft * (II2 - Max(II1, II3)) * 4 * order]
      [] mode = "gauss" ->
            [kind |-> "gauss", II1 |-> II1, II2 |-> II2, II3 |-> II3,
             den |-> 2 * order * Lfft]
      [] OTHER -> [kind |-> "none"]

\* the neighbour reads II1, II2, II3 happen for every mode, before the mode
\* is looked at
NeighboursReadable(PP2, idx_max) ==
    /\ PyInRange(PP2, idx_max - 1)
    /\ PyInRange(PP2, idx_max)
    /\ PyInRange(PP2, idx_max + 1)

ModeIsKnown(mode) == mode \in Modes

freqOffsetEstimation(PP2, mode, order) ==
    LET Lfft    == Len(PP2)
        idx_max == ArgMax(PP2)
        vhat2   == CoarseEstimate(idx_max, Lfft, order)
    IN  IF ~NeighboursReadable(PP2, idx_max)
        THEN [status |-> "raise", err |-> "IndexError",
              idx_max |-> idx_max, vhat2 |-> vhat2]
        ELSE IF ~ModeIsKnown(mode)
        THEN [status |-> "raise", err |-> "Invalid mode.",
              idx_max |-> idx_max, vhat2 |-> vhat2]
        ELSE [status |-> "ok", idx_max |-> idx_max, vhat2 |-> vhat2,
              val |-> [coarse |-> vhat2,
                       fine |-> FineCorrection(mode, PyGet(PP2, idx_max - 1),
                                               PyGet(PP2, idx_max),
                                               PyGet(PP2, idx_max + 1), Lfft, order)]]

freqOffsetEstimationQpsk(PP2, mode) == freqOffsetEstimation(PP2, mode, 4)

freqOffsetEstimation16Apsk(PP2, mode) == freqOffsetEstimation(PP2, mode, 12)

(***************************************************************************)
(* bitsToSymbols(bits, M) and symbolsToBits(syms, M).                      *)
(***************************************************************************)
RECURSIVE Log2Floor(_)
\* int(np.log2(M)), M >= 1
Log2Floor(M) == IF M <= 1 THEN 0 ELSE 1 + Log2Floor(M \div 2)

\* weights in ascending order, 2**np.arange(n): the first bit weighs least
BitWeight_LsbFirst(n, j) == Pow2(j)

\* w = 2**np.arange(n-1,-1,-1): the weight of the bit at 0-based position j
BitWeight(n, j) == Pow2(n - 1 - j)

RECURSIVE WeightedSum(_, _, _)
\* sum(group * w)
WeightedSum(group, n, j) ==
    IF j >= Len(group) THEN 0
    ELSE PyGet(group, j) * BitWeight(n, j) + WeightedSum(group, n, j + 1)

bitsToSymbols(bits, M) ==
    LET n    == Log2Floor(M)
        nsym == Len(bits) \div n
    IN  [i \in 1..nsym |-> WeightedSum(PySlice(bits, (i - 1) * n, i * n), n, 0)]

RECURSIVE BinaryDigits(_)
\* the binary digits of v >= 0 as characters, most significant first
BinaryDigits(v) ==
    IF v <= 1 THEN << (IF v = 1 THEN "1" ELSE "0") >>
    ELSE Append(BinaryDigits(v \div 2), IF v % 2 = 1 THEN "1" ELSE "0")

\* format(v, '0<n>b'): the digits, padded on the left with '0' to width n
FormatBinary(v, n) ==
    LET digits == BinaryDigits(v)
    IN  [k \in 1..(Max(n - Len(digits), 0)) |-> "0"] \o digits

\* the conversion of a digit character stored into an int array
CharToInt(c) == IF c = "1" THEN 1 ELSE 0

symbolsToBits(syms, M) ==
    LET n == Log2Floor(M)
    IN  [k \in 1..(Len(syms) * n) |->
            LET i == (k - 1) \div n
                j == (k - 1) % n
            IN  CharToInt(PyGet(FormatBinary(PyGet(syms, i), n), j))]

(***************************************************************************)
(* addNoise(iqs, **kwargs).  kwargs enters as the set of its keys; the     *)
(* noise samples are drawn by the caller's random source.                  *)
(***************************************************************************)
\* the test of the first branch: 'SNR' and 'Eb' in kwargs.keys().  The
\* non-empty string 'SNR' is true, so the test is 'Eb' in kwargs.keys().
TakesSnrBranch(keys) == "Eb" \in keys

addNoise(iqs, keys, noise) ==
    IF TakesSnrBranch(keys)
    THEN IF "SNR" \notin keys
         THEN Raise("KeyError")                 \* kwargs['SNR']
         ELSE [status |-> "ok", N0 |-> "noiseVariance(SNR, Eb)",
               val |-> [k \in 1..Len(iqs) |-> iqs[k] + noise[k]]]
    ELSE IF "N0" \in keys
    THEN [status |-> "ok", N0 |-> "N0",
          val |-> [k \in 1..Len(iqs) |-> iqs[k] + noise[k]]]
    ELSE Raise("addNoise(): must specify N0 or SNR & Eb in kwargs.")

(***************************************************************************)
(* makeDecision(iq, constellation) and makeDecisions(iqs, constellation).  *)
(* Points are pairs <<re, im>> of integers; the nearest point is found on  *)
(* the squared distance.                                                   *)
(***************************************************************************)
Dist2(a, b) == (a[1] - b[1]) * (a[1] - b[1]) + (a[2] - b[2]) * (a[2] - b[2])

RECURSIVE ArgMinIn(_, _, _, _)
\* the first minimum among the 0-based indices lo..hi-1: that of the lower
\* half unless the upper half holds a strictly nearer point (the scan is
\* split in halves to keep the evaluation shallow)
ArgMinIn(constellation, iq, lo, hi) ==
    IF hi - lo <= 1 THEN lo
    ELSE LET mid == (lo + hi) \div 2
             l   == ArgMinIn(constellation, iq, lo, mid)
             r   == ArgMinIn(constellation, iq, mid, hi)
         IN  IF Dist2(PyGet(constellation, r), iq) < Dist2(PyGet(constellation, l), iq)
             THEN r ELSE l

\* np.argmin(abs(constellation - iq)): the 0-based index of the first minimum
makeDecision(iq, constellation) == ArgMinIn(constellation, iq, 0, Len(constellation))

\* a value stored into an array of dtype int8: the low 8 bits, signed
Int8Bits == 8

StoreInt8(v) ==
    ((v + Pow2(Int8Bits - 1)) % Pow2(Int8Bits)) - Pow2(Int8Bits - 1)

makeDecisions(iqs, constellation) ==
    [k \in 1..Len(iqs) |-> StoreInt8(makeDecision(iqs[k], constellation))]

\* the constellations of the model: M points on a line, point k at <<2k, 0>>
LineConstellation(M) == [k \in 1..M |-> <<2 * (k - 1), 0>>]

\* samples around the first and the last points, on a point, on the midpoint
\* between two neighbours, and off the line
IqPoints(M) == {<<-1, 0>>, <<1, 0>>, <<M, 1>>, <<2 * M - 3, 0>>, <<2 * M - 2, 0>>}

Idle == op = "idle"

Init ==
    /\ op = "idle"
    /\ inp = << >>
    /\ out = << >>

ZeroInsert ==
    /\ Idle
    /\ \E x \in Signals(1, MaxSigLen), L \in 1..MaxL :
        /\ op' = "zeroInsert"
        /\ inp' = [x |-> x, L |-> L]
        /\ out' = [status |-> "ok", val |-> zeroInsert(x, L)]

Upsample ==
    /\ Idle
    /\ \E x \in Signals(1, 2), p \in Signals(1, 2), L \in 1..MaxL :
        /\ op' = "upsample"
        /\ inp' = [x |-> x, p |-> p, L |-> L]
        /\ out' = upsample(x, p, L)

DerivativeFilter2 ==
    /\ Idle
    /\ \E x \in Signals(1, MaxSigLen) \cup EdgeSignals(MaxSigLen + 1, MaxEdgeLen),
          N \in 3..MaxFilterLen, ze \in BOOLEAN :
        /\ op' = "derivativeFilter2"
        /\ inp' = [x |-> x, N |-> N, zero_edge |-> ze]
        /\ out' = derivativeFilter2(x, N, ze)

DerivativeFilter ==
    /\ Idle
    /\ \E x \in Signals(1, MaxSigLen), N \in 3..MaxFilterLen :
        /\ op' = "derivativeFilter"
        /\ inp' = [x |-> x, N |-> N]
        /\ out' = derivativeFilter(x, N)

FractionalDelayFilter ==
    /\ Idle
    /\ \E x \in Signals(1, MaxSigLen), N \in 3..MaxFilterLen :
        /\ op' = "fractionalDelayFilter"
        /\ inp' = [x |-> x, N |-> N]
        /\ out' = fractionalDelayFilter(x, N)

FreqOffsetEstimationQpsk ==
    /\ Idle
    /\ \E n \in 1..MaxBlock :
       \E PP2 \in Spectra(n), mode \in Modes \cup {"exact"} :
        /\ op' = "freqOffsetEstimationQpsk"
        /\ inp' = [order |-> 4, Lfft |-> 2 * n, PP2 |-> PP2, mode |-> mode]
        /\ out' = freqOffsetEstimationQpsk(PP2, mode)

FreqOffsetEstimation16Apsk ==
    /\ Idle
    /\ \E n \in 1..MaxBlock :
       \E PP2 \in Spectra(n), mode \in Modes \cup {"exact"} :
        /\ op' = "freqOffsetEstimation16Apsk"
        /\ inp' = [order |-> 12, Lfft |-> 2 * n, PP2 |-> PP2, mode |-> mode]
        /\ out' = freqOffsetEstimation16Apsk(PP2, mode)

BitsToSymbols ==
    /\ Idle
    /\ \E len \in 0..MaxBitLen, k \in 1..MaxLog2M :
       \E bits \in [1..len -> {0, 1}] :
        /\ op' = "bitsToSymbols"
        /\ inp' = [bits |-> bits, M |-> Pow2(k)]
        /\ out' = [status |-> "ok", val |-> bitsToSymbols(bits, Pow2(k))]

\* the receiver's half of the round trip: the symbols just produced go back
\* through symbolsToBits with the same M
SymbolsToBits ==
    /\ op = "bitsToSymbols"
    /\ op' = "symbolsToBits"
    /\ inp' = [bits |-> inp.bits, M |-> inp.M, syms |-> out.val]
    /\ out' = [status |-> "ok", val |-> symbolsToBits(out.val, inp.M)]

AddNoise ==
    /\ Idle
    /\ \E len \in 0..MaxIqLen, keys \in SUBSET {"SNR", "Eb", "N0"} :
       \E iqs \in [1..len -> SampleVals], noise \in [1..len -> {-1, 1}] :
        /\ op' = "addNoise"
        /\ inp' = [iqs |-> iqs, keys |-> keys]
        /\ out' = addNoise(iqs, keys, noise)

MakeDecisions ==
    /\ Idle
    /\ \E M \in 1..MaxM, len \in 1..MaxIqLen :
       \E iqs \in [1..len -> IqPoints(M)] :
        /\ op' = "makeDecisions"
        /\ inp' = [iqs |-> iqs, M |-> M]
        /\ out' = [status |-> "ok", val |-> makeDecisions(iqs, LineConstellation(M))]

Return ==
    /\ ~Idle
    /\ op' = "idle"
    /\ inp' = << >>
    /\ out' = << >>

Next ==
    \/ ZeroInsert
    \/ Upsample
    \/ DerivativeFilter2
    \/ DerivativeFilter
    \/ FractionalDelayFilter
    \/ FreqOffsetEstimationQpsk
    \/ FreqOffsetEstimation16Apsk
    \/ BitsToSymbols
    \/ SymbolsToBits
    \/ AddNoise
    \/ MakeDecisions
    \/ Return

Spec == Init /\ [][Next]_vars

IsEstimatorOp == op \in {"freqOffsetEstimationQpsk", "freqOffsetEstimation16Apsk"}

\* C2 as claimed: the coarse estimate lies in (-1/(2*order), 1/(2*order)],
\* that is -Lfft/2 < order*Lfft*vhat2 <= Lfft/2.
C2_CoarseRangeAsClaimed ==
    IsEstimatorOp =>
        /\ out.vhat2.den = inp.order * inp.Lfft
        /\ -inp.Lfft < 2 * out.vhat2.num
        /\ 2 * out.vhat2.num <= inp.Lfft

\* C2 (amended): the coarse estimate lies in [-1/(2*order), 1/(2*order)),
\* that is -Lfft/2 <= order*Lfft*vhat2 < Lfft/2; it is negative exactly for
\* the bins >= Lfft/2 and congruent to the bin index modulo Lfft.
C2_CoarseRange ==
    IsEstimatorOp =>
        /\ out.vhat2.den = inp.order * inp.Lfft
        /\ -inp.Lfft <= 2 * out.vhat2.num
        /\ 2 * out.vhat2.num < inp.Lfft
        /\ (out.vhat2.num < 0 <=> 2 * out.idx_max >= inp.Lfft)
        /\ (out.vhat2.num - out.idx_max) % inp.Lfft = 0

\* C2's case: the peak sits in bin Lfft/2, the lowest negative frequency
C2_Witness ==
    /\ IsEstimatorOp
    /\ inp.Lfft >= 4
    /\ 2 * out.idx_max = inp.Lfft
    /\ 2 * out.vhat2.num = -inp.Lfft

\* C3: with a mode outside {coarse, gauss, interp_1, interp_2} both
\* estimators raise 'Invalid mode.', whatever bin the peak falls in, and
\* raise nothing else.
C3_UnknownModeFails ==
    (IsEstimatorOp /\ inp.mode \notin Modes) =>
        (out.status = "raise" /\ out.err = "Invalid mode.")

\* C8: with mode 'coarse' both estimators return the coarse estimate of the
\* peak bin, for every peak bin 0..Lfft-1, without failing.
C8_CoarseSkipsFine ==
    (IsEstimatorOp /\ inp.mode = "coarse") =>
        /\ out.status = "ok"
        /\ out.val.fine.kind = "none"
        /\ out.val.coarse =
               [num |-> IF 2 * out.idx_max >= inp.Lfft
                        THEN out.idx_max - inp.Lfft ELSE out.idx_max,
                den |-> inp.Lfft * inp.order]

\* C5: with M a power of two and a bit sequence whose length is a multiple
\* of log2(M), symbolsToBits(bitsToSymbols(bits, M), M) = bits, the bits are
\* grouped MSB-first and every symbol index lies in 0..M-1.
C5_BitSymbolRoundTrip ==
    (op = "symbolsToBits" /\ Len(inp.bits) % Log2Floor(inp.M) = 0) =>
        LET n == Log2Floor(inp.M)
        IN  /\ out.val = inp.bits
            /\ Len(inp.syms) * n = Len(inp.bits)
            /\ \A i \in 1..Len(inp.syms) :
                   /\ inp.syms[i] \in 0..(inp.M - 1)
                   /\ \A j \in 1..n :
                          (inp.syms[i] \div Pow2(n - j)) % 2 = inp.bits[(i - 1) * n + j]

\* C5's case: two or more symbols of two or more bits each, not all alike,
\* whose bit pattern is not a palindrome
C5_Witness ==
    /\ op = "symbolsToBits"
    /\ Log2Floor(inp.M) >= 2
    /\ Len(inp.bits) = 2 * Log2Floor(inp.M)
    /\ inp.syms[1] # inp.syms[2]
    /\ inp.bits[1] # inp.bits[Log2Floor(inp.M)]
    /\ out.val = inp.bits

NoiseKeysOk(keys) == "N0" \in keys \/ {"SNR", "Eb"} \subseteq keys

\* C6: addNoise raises the designated error exactly when kwargs holds
\* neither N0 nor both of SNR and Eb, and otherwise returns len(iqs) samples.
C6_MissingKeyFailure ==
    op = "addNoise" =>
        IF NoiseKeysOk(inp.keys)
        THEN out.status = "ok" /\ Len(out.val) = Len(inp.iqs)
        ELSE /\ out.status = "raise"
             /\ out.err = "addNoise(): must specify N0 or SNR & Eb in kwargs."

\* C7: makeDecisions(iqs, constellation)[i] is makeDecision(iqs[i],
\* constellation), the index of the nearest point (the lowest on a tie), and
\* lies in 0..M-1, for every M >= 1.
C7_DecisionIndices ==
    op = "makeDecisions" =>
        \A k \in 1..Len(inp.iqs) :
            LET c == LineConstellation(inp.M)
                d == out.val[k]
            IN  /\ d \in 0..(inp.M - 1)
                /\ d = makeDecision(inp.iqs[k], c)
                /\ \A j \in 0..(inp.M - 1) :
                       \/ Dist2(PyGet(c, d), inp.iqs[k]) < Dist2(PyGet(c, j), inp.iqs[k])
                       \/ /\ Dist2(PyGet(c, d), inp.iqs[k]) = Dist2(PyGet(c, j), inp.iqs[k])
                          /\ d <= j

IsFilterOp == op \in {"derivativeFilter2", "derivativeFilter", "fractionalDelayFilter"}

\* C1: every filtering routine, on a signal of length >= 2 and a filter length
\* it accepts (4k-1 for the derivative filters, any N >= 3 for the fractional
\* delay filter), returns exactly len(x) samples.
C1_LengthPreservation ==
    (/\ IsFilterOp
     /\ Len(inp.x) >= 2
     /\ (op # "fractionalDelayFilter" => DerivativeFilterLenOk(inp.N)))
    => (out.status = "ok" /\ Len(out.val) = Len(inp.x))

\* The same statement for odd N only, where the tap count equals N.
C1_OddLengthPreservation ==
    (/\ IsFilterOp
     /\ Len(inp.x) >= 2
     /\ inp.N % 2 = 1
     /\ (op # "fractionalDelayFilter" => DerivativeFilterLenOk(inp.N)))
    => (out.status = "ok" /\ Len(out.val) = Len(inp.x))

\* C9: derivativeFilter2 with zero_edge = True returns zeros at the indices
\* i < pad and i >= n - pad, returns at every other index the sample that
\* zero_edge = False returns there, and leaves x unchanged.
C9_ConvolveAndZero ==
    (op = "derivativeFilter2" /\ inp.zero_edge /\ DerivativeFilterLenOk(inp.N)) =>
        LET n     == Len(inp.x)
            pad   == (inp.N - 1) \div 2
            plain == derivativeFilter2(inp.x, inp.N, FALSE)
        IN  /\ out.status = "ok"
            /\ plain.status = "ok"
            /\ Len(out.val) = n
            /\ \A i \in 0..(n - 1) :
                   PyGet(out.val, i) =
                       (IF i < pad \/ i >= n - pad
                        THEN ZeroSample(inp.N) ELSE PyGet(plain.val, i))
            /\ out.x_after = inp.x

\* C9's case: a call with zero_edge = True and pad >= 2 on a signal longer
\* than 2*pad, where the head, the tail written by xd[-pad:-1] = 0 and the
\* last sample were all non-zero before zeroing, and a non-zero middle
\* sample is kept between them
C9_Witness ==
    /\ op = "derivativeFilter2"
    /\ inp.zero_edge
    /\ DerivativeFilterLenOk(inp.N)
    /\ out.status = "ok"
    /\ LET n     == Len(inp.x)
           pad   == (inp.N - 1) \div 2
           plain == derivativeFilter2(inp.x, inp.N, FALSE).val
       IN  /\ pad >= 2
           /\ n > 2 * pad
           /\ PyGet(plain, 0) # ZeroSample(inp.N)
           /\ PyGet(plain, n - pad) # ZeroSample(inp.N)
           /\ PyGet(plain, n - 1) # ZeroSample(inp.N)
           /\ PyGet(out.val, n - pad) = ZeroSample(inp.N)
           /\ \E i \in pad..(n - pad - 1) : PyGet(out.val, i) # ZeroSample(inp.N)

\* C10: zeroInsert(x, L) has length (n-1)*L + 1, holds x[k] at index k*L and
\* 0 everywhere else, for every L >= 1 (L = 1 included).
C10_ZeroInsertion ==
    op = "zeroInsert" =>
        LET x == inp.x
            L == inp.L
            z == out.val
        IN  /\ out.status = "ok"
            /\ Len(z) = (Len(x) - 1) * L + 1
            /\ \A i \in 0..(Len(z) - 1) :
                   PyGet(z, i) = (IF i % L = 0 THEN PyGet(x, i \div L) ELSE 0)
====
